---- MODULE Spec2Model ----
(***************************************************************************)
(* Traverser::traverse of FastBVH (include/FastBVH/Traverser.h): the       *)
(* stack-based descent of a flattened BVH for one ray, in nearest-hit and  *)
(* in occlusion mode.                                                      *)
(*                                                                         *)
(* The BVH is the pair flatTree / build_prims.  A ray is represented by    *)
(* what the two external collaborators answer for it: bbox.intersect for   *)
(* every node's box (hit flag and entry distance) and the Intersector for  *)
(* every primitive (hit distance, Infinity for a miss).  Every local of    *)
(* traverse is a function of the call, so that several calls can run on    *)
(* one BVH.  bbhits[1] and bbhits[3] (the exit distances) are written and  *)
(* swapped by the code but never read, and bbhits[0], bbhits[2] are always *)
(* written by the two box tests of an iteration before they are read, so   *)
(* bbhits is local to one iteration.                                       *)
(***************************************************************************)
EXTENDS Integers, Sequences, FiniteSets, TLC

VARIABLES flatTree, build_prims, ray, occlusion, todo, stackptr,
          intersection, pc, ni, o, result, log

vars == <<flatTree, build_prims, ray, occlusion, todo, stackptr,
          intersection, pc, ni, o, result, log>>

(***************************************************************************)
(* Bounds of the model.                                                    *)
(***************************************************************************)
\* largest node count of the exhaustively enumerated trees
MaxNodes == 5
\* largest primitive count of one enumerated tree
MaxPrims == 2
\* largest box-entry / primitive-hit distance (distances are 0..MaxT)
MaxT == 1
\* number of concurrent calls in SpecConc
NumCalls == 2

(***************************************************************************)
(* Program constants.                                                      *)
(***************************************************************************)
\* Traversal todo[64]
StackCap == 64
\* todo[stackptr].mint = -9999999.f
RootMint == -9999999
\* std::numeric_limits<Float>::infinity(), the t of an invalid Intersection
Infinity == 10000000
\* the object pointer of an invalid Intersection (nullptr)
NoObject == -1

(***************************************************************************)
(* Intersection (Intersection.h): validity and the merge rule.             *)
(***************************************************************************)
Valid(x) == x.t < Infinity

closest(a, b) == IF a.t < b.t THEN a ELSE b

\* variant: a default Intersection with t = 0
DefaultIntersectionZero == [t |-> 0, object |-> NoObject]

\* Intersection<Float, Primitive> intersection;   (default constructed)
DefaultIntersection == [t |-> Infinity, object |-> NoObject]

(***************************************************************************)
(* The external collaborators, for the ray r.                              *)
(***************************************************************************)
\* intersector(obj, ray)
intersector(obj, r) == [t |-> r.prim[obj], object |-> obj]

\* flatTree[n].bbox.intersect(ray, tnear, tfar): the flag and *tnear
bboxIntersect(n, r) == r.bb[n]

(***************************************************************************)
(* Flattened trees: pre-order arrays, left child at i+1, right child at    *)
(* i+rightOffset, rightOffset = 0 for a leaf.                              *)
(***************************************************************************)
RECURSIVE Shapes(_)
Shapes(n) ==
  IF n = 1 THEN {<<0>>}
  ELSE UNION { { <<l + 1>> \o a \o b : a \in Shapes(l), b \in Shapes(n - 1 - l) }
               : l \in {k \in 1..(n - 2) : k % 2 = 1} }

\* the primitives of the leaves of s before position i
SumUpTo(s, cnt, i) ==
  Cardinality({jk \in (1..(i - 1)) \X (1..MaxPrims) :
                 s[jk[1]] = 0 /\ jk[2] <= cnt[jk[1]]})

RECURSIVE SubtreeSize(_, _)
SubtreeSize(s, i) == IF s[i] = 0 THEN 1 ELSE s[i] + SubtreeSize(s, i + s[i])

\* the node array of shape s with cnt[i] primitives in leaf i; a node's
\* primitives are those of its subtree, contiguous from start
MakeTree(s, cnt) ==
  [n \in 0..(Len(s) - 1) |->
     [rightOffset |-> s[n + 1],
      start       |-> SumUpTo(s, cnt, n + 1),
      nPrims      |-> SumUpTo(s, cnt, n + 1 + SubtreeSize(s, n + 1))
                        - SumUpTo(s, cnt, n + 1)]]

NodeIds(tree) == DOMAIN tree
NumPrims(tree) == tree[0].nPrims
PrimIds(tree) == 0..(NumPrims(tree) - 1)

\* node.rightOffset == 0
IsLeaf(node) == node.rightOffset = 0

\* the node whose left or right child is node m
Parent(tree, m) ==
  CHOOSE n \in NodeIds(tree) :
    ~IsLeaf(tree[n]) /\ (m = n + 1 \/ m = n + tree[n].rightOffset)

RECURSIVE Level(_, _)
\* the number of nodes on the path from the root down to node m
Level(tree, m) == IF m = 0 THEN 1 ELSE 1 + Level(tree, Parent(tree, m))

\* the number of nodes on the longest path from the root down to a leaf
TreeDepth(tree) ==
  CHOOSE d \in 1..Cardinality(NodeIds(tree)) :
    /\ \E m \in NodeIds(tree) : Level(tree, m) = d
    /\ \A m \in NodeIds(tree) : Level(tree, m) <= d

RECURSIVE Ancestors(_, _, _)
\* the nodes on the path from node n down to node m, both included
\* (m is in the subtree of n)
Ancestors(tree, n, m) ==
  IF n = m \/ IsLeaf(tree[n]) THEN {n}
  ELSE IF m < n + tree[n].rightOffset
       THEN {n} \cup Ancestors(tree, n + 1, m)
       ELSE {n} \cup Ancestors(tree, n + tree[n].rightOffset, m)

LeafOfPrim(tree, p) ==
  CHOOSE n \in NodeIds(tree) :
    IsLeaf(tree[n]) /\ tree[n].start <= p /\ p < tree[n].start + tree[n].nPrims

(***************************************************************************)
(* Rays.  A box answers a miss, or a hit with an entry distance; a         *)
(* primitive answers a miss (Infinity) or a hit distance.  The boxes       *)
(* enclose the primitives of their subtrees: a primitive hit at t has      *)
(* every box on its path from the root hit, entered no later than t.       *)
(***************************************************************************)
BoxAnswers ==
  {[hit |-> FALSE, tnear |-> 0]} \cup {[hit |-> TRUE, tnear |-> d] : d \in 0..MaxT}

PrimAnswers == {Infinity} \cup 0..MaxT

WellFormed(tree, r) ==
  \A p \in PrimIds(tree) :
    r.prim[p] < Infinity =>
      \A n \in Ancestors(tree, 0, LeafOfPrim(tree, p)) :
        r.bb[n].hit /\ r.bb[n].tnear <= r.prim[p]

SmallTrees ==
  UNION { { MakeTree(s, cnt) :
              cnt \in { c \in [1..Len(s) -> 0..MaxPrims] :
                          /\ \A i \in 1..Len(s) : s[i] # 0 => c[i] = 0
                          /\ SumUpTo(s, c, Len(s) + 1) <= MaxPrims } }
          : s \in UNION { Shapes(n) : n \in {k \in 1..MaxNodes : k % 2 = 1} } }

\* traverse never tests the root's box, so its entry distance is never read
RootBoxAnswers == {[hit |-> FALSE, tnear |-> 0], [hit |-> TRUE, tnear |-> 0]}

SmallRays(tree) ==
  { r \in [bb : [NodeIds(tree) -> BoxAnswers], prim : [PrimIds(tree) -> PrimAnswers]] :
      r.bb[0] \in RootBoxAnswers /\ WellFormed(tree, r) }

(***************************************************************************)
(* Deep trees: the two chains of depth StackCap and a balanced tree, with  *)
(* rays that hit every box.                                                *)
(***************************************************************************)
\* depth of the balanced tree
BalancedDepth == 3

RECURSIVE BalancedShape(_)
BalancedShape(d) ==
  IF d = 1 THEN <<0>>
  ELSE LET s == BalancedShape(d - 1) IN <<Len(s) + 1>> \o s \o s

\* the chain of depth d whose every right child is internal (the left
\* child, at i+1, is a leaf; the right child is at i+2), k primitives a leaf
ChainRightTree(d, k) ==
  [n \in 0..(2 * d - 2) |->
     IF n % 2 = 0 /\ n < 2 * d - 2
     THEN [rightOffset |-> 2, start |-> (n \div 2) * k, nPrims |-> (d - (n \div 2)) * k]
     ELSE [rightOffset |-> 0, start |-> (n \div 2) * k, nPrims |-> k]]

\* the chain of depth d whose every left child is internal
ChainLeftTree(d, k) ==
  [n \in 0..(2 * d - 2) |->
     IF n < d - 1
     THEN [rightOffset |-> 2 * d - 2 - 2 * n, start |-> 0, nPrims |-> (d - n) * k]
     ELSE [rightOffset |-> 0, start |-> (n - (d - 1)) * k, nPrims |-> k]]

BalancedTree(d, k) ==
  LET s == BalancedShape(d)
  IN MakeTree(s, [i \in 1..Len(s) |-> IF s[i] = 0 THEN k ELSE 0])

DeepTrees ==
  UNION { {ChainRightTree(StackCap, k), ChainLeftTree(StackCap, k),
           BalancedTree(BalancedDepth, k)} : k \in 0..1 }

\* every box hit; internal nodes entered at a, leaves at b, primitives all
\* answer u
AllHitRays(tree) ==
  { [bb   |-> [n \in NodeIds(tree) |->
                 [hit |-> TRUE,
                  tnear |-> IF n = 0 THEN 0
                            ELSE IF IsLeaf(tree[n]) THEN ab[2] ELSE ab[1]]],
     prim |-> [p \in PrimIds(tree) |-> u]] :
      ab \in {<<0, MaxT>>, <<MaxT, 0>>, <<0, 0>>}, u \in {Infinity, MaxT} }

RaysOf(tree) == IF tree \in DeepTrees THEN AllHitRays(tree) ELSE SmallRays(tree)

(***************************************************************************)
(* The locals of traverse.                                                 *)
(***************************************************************************)
\* todo[stackptr].i = 0; todo[stackptr].mint = -9999999.f;
RootEntry == [i |-> 0, mint |-> RootMint]

\* the indices of Traversal todo[64]
Slots == 0..(StackCap - 1)

\* todo[] holds no values until they are assigned (its elements are
\* constructed uninitialized): its model is a function on the slots
\* assigned so far, the root entry's slot at the start
InitialTodo == [k \in {0} |-> RootEntry]

\* a store to todo[k]; a store outside the array is kept out of the array
\* here and is recorded by the slot of its push event
Store(td, k, e) ==
  IF k \in Slots
  THEN [j \in DOMAIN td \cup {k} |-> IF j = k THEN e ELSE td[j]]
  ELSE td

Ev(kind, node, val, slot) == [kind |-> kind, node |-> node, val |-> val, slot |-> slot]

\* variant: todo[stackptr++] = e
PushEntryPostIncrement(td, sp, e) ==
  [todo |-> Store(td, sp, e), stackptr |-> sp + 1,
   events |-> <<Ev("push", e.i, e.mint, sp)>>]

\* todo[++stackptr] = e
PushEntry(td, sp, e) ==
  [todo |-> Store(td, sp + 1, e), stackptr |-> sp + 1,
   events |-> <<Ev("push", e.i, e.mint, sp + 1)>>]

\* variant: the pop without its decrement
AfterPopNoDecrement(sp) == sp

\* stackptr--
AfterPop(sp) == sp - 1

\* variants: if(near >= intersection.t), if(near < intersection.t)
PruneIfNotCloser(near, best) == near >= best.t
PruneReversed(near, best) == near < best.t

\* if(near > intersection.t) continue;
Prune(near, best) == near > best.t

\* variant: o+1<node.nPrims
LeafCondSkipLast(k, node) == k + 1 < node.nPrims

\* for(uint32_t o=0;o<node.nPrims;++o)
LeafCond(k, node) == k < node.nPrims

\* build_prims[node.start + o]
PrimAt(node, k) == build_prims[node.start + k]

\* variant: intersection = current, without closest()
LeafVisitLastWins(best, cur, occ) ==
  IF Valid(cur)
  THEN IF occ THEN [ret |-> TRUE, val |-> cur] ELSE [ret |-> FALSE, val |-> cur]
  ELSE [ret |-> FALSE, val |-> best]

\* variant: without if(occlusion) return current;
LeafVisitNoEarlyReturn(best, cur, occ) ==
  IF Valid(cur) THEN [ret |-> FALSE, val |-> closest(best, cur)]
  ELSE [ret |-> FALSE, val |-> best]

\* the body of the leaf loop for the Intersector's answer cur: ret says that
\* traverse returns val, otherwise val is the new intersection
LeafVisit(best, cur, occ) ==
  IF Valid(cur)
  THEN IF occ THEN [ret |-> TRUE, val |-> cur]
       ELSE [ret |-> FALSE, val |-> closest(best, cur)]
  ELSE [ret |-> FALSE, val |-> best]

\* variant: the swap taken on equal distances as well
OrderChildrenSwapOnTie(left, right, b0, b2) ==
  IF b2 <= b0
  THEN [closer |-> right, other |-> left, bcloser |-> b2, bother |-> b0]
  ELSE [closer |-> left, other |-> right, bcloser |-> b0, bother |-> b2]

\* closer = ni+1; other = ni+node.rightOffset; swapped, with their entry
\* distances, if(bbhits[2] < bbhits[0])
OrderChildren(left, right, b0, b2) ==
  IF b2 < b0
  THEN [closer |-> right, other |-> left, bcloser |-> b2, bother |-> b0]
  ELSE [closer |-> left, other |-> right, bcloser |-> b0, bother |-> b2]

\* the internal-node branch for node n: the two box tests and the pushes
PushChildren(td, sp, n, r) ==
  LET left  == n + 1
      right == n + flatTree[n].rightOffset
      c0    == bboxIntersect(left, r)
      c1    == bboxIntersect(right, r)
      tests == <<Ev("box", left, IF c0.hit THEN c0.tnear ELSE Infinity, 0),
                 Ev("box", right, IF c1.hit THEN c1.tnear ELSE Infinity, 0)>>
  IN IF c0.hit /\ c1.hit
     THEN LET ord == OrderChildren(left, right, c0.tnear, c1.tnear)
              p1  == PushEntry(td, sp, [i |-> ord.other, mint |-> ord.bother])
              p2  == PushEntry(p1.todo, p1.stackptr,
                               [i |-> ord.closer, mint |-> ord.bcloser])
          IN [todo |-> p2.todo, stackptr |-> p2.stackptr,
              events |-> tests \o p1.events \o p2.events]
     ELSE IF c0.hit
     THEN LET p == PushEntry(td, sp, [i |-> left, mint |-> c0.tnear])
          IN [todo |-> p.todo, stackptr |-> p.stackptr, events |-> tests \o p.events]
     ELSE IF c1.hit
     THEN LET p == PushEntry(td, sp, [i |-> right, mint |-> c1.tnear])
          IN [todo |-> p.todo, stackptr |-> p.stackptr, events |-> tests \o p.events]
     ELSE [todo |-> td, stackptr |-> sp, events |-> tests]

(***************************************************************************)
(* The state after construction of the BVH and entry into traverse, for    *)
(* the calls of DOMAIN rs.                                                 *)
(***************************************************************************)
Start(tree, rs, occs) ==
  /\ flatTree = tree
  /\ build_prims = [k \in PrimIds(tree) |-> k]
  /\ ray = rs
  /\ occlusion = occs
  /\ todo = [c \in DOMAIN rs |-> InitialTodo]
  /\ stackptr = [c \in DOMAIN rs |-> 0]
  /\ intersection = [c \in DOMAIN rs |-> DefaultIntersection]
  /\ pc = [c \in DOMAIN rs |-> "loop"]
  /\ ni = [c \in DOMAIN rs |-> 0]
  /\ o = [c \in DOMAIN rs |-> 0]
  /\ result = [c \in DOMAIN rs |-> DefaultIntersection]
  /\ log = [c \in DOMAIN rs |-> <<>>]

InitOn(trees) ==
  \E tree \in trees :
    \E r \in RaysOf(tree), occ \in BOOLEAN :
      Start(tree, [c \in {1} |-> r], [c \in {1} |-> occ])

\* one call, on any small tree and any ray
Init == InitOn(SmallTrees)

\* one call, on the small and on the deep trees
InitDeep == InitOn(SmallTrees \cup DeepTrees)

Calls == DOMAIN pc

Top(c) == todo[c][stackptr[c]]

\* while(stackptr>=0) fails: return intersection;
Exit(c) ==
  /\ pc[c] = "loop"
  /\ stackptr[c] < 0
  /\ pc' = [pc EXCEPT ![c] = "done"]
  /\ result' = [result EXCEPT ![c] = intersection[c]]
  /\ UNCHANGED <<flatTree, build_prims, ray, occlusion, todo, stackptr,
                 intersection, ni, o, log>>

\* pop, then: if(near > intersection.t) continue;
PopPrune(c) ==
  /\ pc[c] = "loop"
  /\ stackptr[c] >= 0
  /\ Prune(Top(c).mint, intersection[c])
  /\ ni' = [ni EXCEPT ![c] = Top(c).i]
  /\ stackptr' = [stackptr EXCEPT ![c] = AfterPop(stackptr[c])]
  /\ log' = [log EXCEPT ![c] = @ \o <<Ev("pop", Top(c).i, Top(c).mint, stackptr[c]),
                                      Ev("prune", Top(c).i, Top(c).mint, 0)>>]
  /\ UNCHANGED <<flatTree, build_prims, ray, occlusion, todo, intersection,
                 pc, o, result>>

\* pop of a leaf that is not pruned: enter the primitive loop
PopLeaf(c) ==
  /\ pc[c] = "loop"
  /\ stackptr[c] >= 0
  /\ ~Prune(Top(c).mint, intersection[c])
  /\ IsLeaf(flatTree[Top(c).i])
  /\ ni' = [ni EXCEPT ![c] = Top(c).i]
  /\ stackptr' = [stackptr EXCEPT ![c] = AfterPop(stackptr[c])]
  /\ pc' = [pc EXCEPT ![c] = "leaf"]
  /\ o' = [o EXCEPT ![c] = 0]
  /\ log' = [log EXCEPT ![c] = @ \o <<Ev("pop", Top(c).i, Top(c).mint, stackptr[c])>>]
  /\ UNCHANGED <<flatTree, build_prims, ray, occlusion, todo, intersection, result>>

\* pop of an internal node that is not pruned: test and push the children
PopInternal(c) ==
  /\ pc[c] = "loop"
  /\ stackptr[c] >= 0
  /\ ~Prune(Top(c).mint, intersection[c])
  /\ ~IsLeaf(flatTree[Top(c).i])
  /\ LET p == PushChildren(todo[c], AfterPop(stackptr[c]), Top(c).i, ray[c])
     IN /\ todo' = [todo EXCEPT ![c] = p.todo]
        /\ stackptr' = [stackptr EXCEPT ![c] = p.stackptr]
        /\ log' = [log EXCEPT ![c] =
                     @ \o <<Ev("pop", Top(c).i, Top(c).mint, stackptr[c])>> \o p.events]
  /\ ni' = [ni EXCEPT ![c] = Top(c).i]
  /\ UNCHANGED <<flatTree, build_prims, ray, occlusion, intersection, pc, o, result>>

\* one iteration of the primitive loop of leaf ni
LeafStep(c) ==
  /\ pc[c] = "leaf"
  /\ LeafCond(o[c], flatTree[ni[c]])
  /\ LET obj == PrimAt(flatTree[ni[c]], o[c])
         current == intersector(obj, ray[c])
         v == LeafVisit(intersection[c], current, occlusion[c])
     IN /\ log' = [log EXCEPT ![c] = @ \o <<Ev("isect", obj, current.t, o[c])>>]
        /\ IF v.ret
           THEN /\ pc' = [pc EXCEPT ![c] = "done"]
                /\ result' = [result EXCEPT ![c] = v.val]
                /\ UNCHANGED <<intersection, o>>
           ELSE /\ intersection' = [intersection EXCEPT ![c] = v.val]
                /\ o' = [o EXCEPT ![c] = o[c] + 1]
                /\ UNCHANGED <<pc, result>>
  /\ UNCHANGED <<flatTree, build_prims, ray, occlusion, todo, stackptr, ni>>

\* variant: LeafEnd with the leaf marked as consumed in the node array
LeafEndMarkingNode(c) ==
  /\ pc[c] = "leaf"
  /\ ~LeafCond(o[c], flatTree[ni[c]])
  /\ pc' = [pc EXCEPT ![c] = "loop"]
  /\ flatTree' = [flatTree EXCEPT ![ni[c]].nPrims = 0]
  /\ UNCHANGED <<build_prims, ray, occlusion, todo, stackptr,
                 intersection, ni, o, result, log>>

\* the primitive loop ends: back to the while
LeafEnd(c) ==
  /\ pc[c] = "leaf"
  /\ ~LeafCond(o[c], flatTree[ni[c]])
  /\ pc' = [pc EXCEPT ![c] = "loop"]
  /\ UNCHANGED <<flatTree, build_prims, ray, occlusion, todo, stackptr,
                 intersection, ni, o, result, log>>

Next ==
  \/ \E c \in Calls : Exit(c)
  \/ \E c \in Calls : PopPrune(c)
  \/ \E c \in Calls : PopLeaf(c)
  \/ \E c \in Calls : PopInternal(c)
  \/ \E c \in Calls : LeafStep(c)
  \/ \E c \in Calls : LeafEnd(c)

Spec == Init /\ [][Next]_vars

SpecDeep == InitDeep /\ [][Next]_vars

\* the rays whose boxes and primitives answer with the two extreme
\* distances only
FairRays(tree) ==
  { r \in SmallRays(tree) :
      /\ \A n \in NodeIds(tree) : r.bb[n].tnear \in {0, MaxT}
      /\ \A p \in PrimIds(tree) : r.prim[p] \in {0, MaxT, Infinity} }

InitFair ==
  \E tree \in SmallTrees :
    \E r \in FairRays(tree), occ \in BOOLEAN :
      Start(tree, [c \in {1} |-> r], [c \in {1} |-> occ])

\* one call that runs to completion: traverse is synchronous, so no step
\* of it can be left untaken for ever
FairSpec == InitFair /\ [][Next]_vars /\ WF_vars(Next)

(***************************************************************************)
(* Several calls on one BVH, each with its own ray and mode.               *)
(***************************************************************************)
\* the tree of one internal node and two leaves of one primitive each
ConcTree == MakeTree(<<2, 0, 0>>, <<0, 1, 1>>)

ConcRays ==
  { [bb   |-> [n \in NodeIds(ConcTree) |->
                 [hit |-> TRUE, tnear |-> IF n = 2 THEN a[1] ELSE 0]],
     prim |-> [p \in PrimIds(ConcTree) |-> IF p = 0 THEN a[2] ELSE a[3]]] :
      a \in {<<0, Infinity, Infinity>>, <<MaxT, 0, MaxT>>,
             <<0, MaxT, Infinity>>, <<MaxT, Infinity, MaxT>>} }

InitConc ==
  \E rs \in [1..NumCalls -> ConcRays], occs \in [1..NumCalls -> BOOLEAN] :
    Start(ConcTree, rs, occs)

SpecConc == InitConc /\ [][Next]_vars

(***************************************************************************)
(* traverse as a function of its arguments: the same loop, run to its      *)
(* return.  prune = FALSE is the loop with the check of line 81 removed.   *)
(***************************************************************************)
RECURSIVE LeafScan(_, _, _, _, _)
LeafScan(node, k, best, r, occ) ==
  IF ~LeafCond(k, node) THEN [ret |-> FALSE, val |-> best]
  ELSE LET v == LeafVisit(best, intersector(PrimAt(node, k), r), occ)
       IN IF v.ret THEN v ELSE LeafScan(node, k + 1, v.val, r, occ)

RECURSIVE Loop(_, _, _, _, _, _)
Loop(td, sp, best, r, occ, prune) ==
  IF sp < 0 THEN best
  ELSE IF prune /\ Prune(td[sp].mint, best)
  THEN Loop(td, AfterPop(sp), best, r, occ, prune)
  ELSE IF IsLeaf(flatTree[td[sp].i])
  THEN LET v == LeafScan(flatTree[td[sp].i], 0, best, r, occ)
       IN IF v.ret THEN v.val ELSE Loop(td, AfterPop(sp), v.val, r, occ, prune)
  ELSE LET p == PushChildren(td, AfterPop(sp), td[sp].i, r)
       IN Loop(p.todo, p.stackptr, best, r, occ, prune)

Traverse(r, occ, prune) ==
  Loop(InitialTodo, 0, DefaultIntersection, r, occ, prune)

(***************************************************************************)
(* Properties.                                                             *)
(***************************************************************************)
Done(c) == pc[c] = "done"

Min(S) == CHOOSE x \in S : \A y \in S : x <= y

\* the linear scan: the smallest t the Intersector reports over all
\* primitives, Infinity when it reports no hit
BruteForceT(r) ==
  Min({intersector(build_prims[k], r).t : k \in DOMAIN build_prims} \cup {Infinity})

Kind(c, k, kind) == k \in 1..Len(log[c]) /\ log[c][k].kind = kind

\* C1: nearest-hit correctness.  When a nearest-mode call has returned, its
\* result is invalid exactly if the Intersector reports no hit for any
\* primitive, and otherwise carries the smallest t the Intersector reports
\* over all primitives, as the Intersector reported it for the result's
\* primitive.
NearestHitCorrect ==
  \A c \in Calls :
    (Done(c) /\ ~occlusion[c]) =>
      /\ Valid(result[c]) <=> (\E k \in DOMAIN build_prims :
                                 Valid(intersector(build_prims[k], ray[c])))
      /\ result[c].t = BruteForceT(ray[c])
      /\ Valid(result[c]) => result[c] = intersector(result[c].object, ray[c])

\* a nearest-mode call has returned the nearer of two different hits after
\* pruning an entry
NearestHitWitness ==
  \E c \in Calls :
    /\ Done(c) /\ ~occlusion[c] /\ Valid(result[c])
    /\ \E k \in DOMAIN build_prims :
         /\ Valid(intersector(build_prims[k], ray[c]))
         /\ intersector(build_prims[k], ray[c]).t > result[c].t
    /\ \E k \in 1..Len(log[c]) : log[c][k].kind = "prune"

\* C2: occlusion soundness.  When an occlusion-mode call has returned, its
\* result is valid exactly if the linear scan finds a hit, and a valid result
\* is the Intersector's answer for some primitive.
OcclusionSound ==
  \A c \in Calls :
    (Done(c) /\ occlusion[c]) =>
      /\ Valid(result[c]) <=> BruteForceT(ray[c]) < Infinity
      /\ Valid(result[c]) =>
           \E k \in DOMAIN build_prims :
             result[c] = intersector(build_prims[k], ray[c])

\* an occlusion-mode call has returned a hit that is not the nearest one
OcclusionWitness ==
  \E c \in Calls :
    /\ Done(c) /\ occlusion[c] /\ Valid(result[c])
    /\ BruteForceT(ray[c]) < result[c].t

PruningEquivalence ==
  \A c \in Calls :
    (Done(c) /\ ~occlusion[c]) =>
      /\ result[c].t = Traverse(ray[c], FALSE, FALSE).t
      /\ Valid(result[c]) <=> Valid(Traverse(ray[c], FALSE, FALSE))

\* a nearest-mode call has returned a hit after pruning an internal node
PruningWitness ==
  \E c \in Calls :
    /\ Done(c) /\ ~occlusion[c] /\ Valid(result[c])
    /\ \E k \in 1..Len(log[c]) :
         log[c][k].kind = "prune" /\ ~IsLeaf(flatTree[log[c][k].node])

\* C5: no-hit correctness.  When a call, in either mode, has returned for a
\* ray that misses the root's box, its result is invalid.
NoHitCorrect ==
  \A c \in Calls :
    (Done(c) /\ ~bboxIntersect(0, ray[c]).hit) => ~Valid(result[c])

\* a call has returned for a ray that misses the root's box after it passed
\* a primitive to the Intersector
NoHitWitness ==
  \E c \in Calls :
    /\ Done(c) /\ ~bboxIntersect(0, ray[c]).hit
    /\ \E k \in 1..Len(log[c]) : log[c][k].kind = "isect"

\* no node index is popped twice by one call
PoppedOnce ==
  \A c \in Calls :
    \A j, k \in 1..Len(log[c]) :
      (log[c][j].kind = "pop" /\ log[c][k].kind = "pop"
         /\ log[c][j].node = log[c][k].node) => j = k

\* a step of a call that is in the primitive loop of a leaf without
\* primitives passes nothing to the Intersector, leaves the running best
\* and the stack alone, and goes back to the while loop
EmptyLeafStep ==
  \A c \in Calls :
    (pc[c] = "leaf" /\ flatTree[ni[c]].nPrims = 0 /\ pc'[c] # pc[c]) =>
      /\ pc'[c] = "loop"
      /\ log'[c] = log[c]
      /\ intersection'[c] = intersection[c]
      /\ stackptr'[c] = stackptr[c]
      /\ todo'[c] = todo[c]

\* C6: termination.  Every call returns; no node index is popped twice; a
\* leaf without primitives is entered, contributes nothing and leaves the
\* loop running.
Termination ==
  /\ <>(\A c \in Calls : Done(c))
  /\ []PoppedOnce
  /\ [][EmptyLeafStep]_vars

\* a call has returned a hit after it popped a leaf without primitives and
\* then popped another node
TerminationWitness ==
  \E c \in Calls :
    /\ Done(c) /\ Valid(result[c])
    /\ \E j, k \in 1..Len(log[c]) :
         /\ j < k
         /\ log[c][j].kind = "pop" /\ log[c][k].kind = "pop"
         /\ IsLeaf(flatTree[log[c][j].node])
         /\ flatTree[log[c][j].node].nPrims = 0
         /\ ~Kind(c, j + 1, "prune")

\* C7: concurrent independence.  No step of any call changes the node array
\* or the primitive array, and every call that has returned has the result
\* traverse gives for its ray and mode when run alone.
ConcurrentIndependence ==
  /\ [][flatTree' = flatTree /\ build_prims' = build_prims]_vars
  /\ [](\A c \in Calls :
          Done(c) => result[c] = Traverse(ray[c], occlusion[c], TRUE))

\* one call has returned a hit while another, on another ray, is inside a
\* leaf with an entry left on its stack
ConcurrentWitness ==
  \E c, d \in Calls :
    /\ c # d /\ ray[c] # ray[d]
    /\ Done(c) /\ Valid(result[c])
    /\ pc[d] = "leaf" /\ stackptr[d] >= 0

\* C8: front-to-back ordering.  Whenever the box tests of an internal node
\* hit both children, the next two events push the child entered later and
\* then the child entered earlier (the left child, i+1, when both are
\* entered at the same distance), each with its own entry distance, into
\* adjacent slots; the next pop is that of the closer child and the farther
\* child is popped only after it.
FrontToBack ==
  \A c \in Calls :
    \A k \in 1..Len(log[c]) :
      (/\ Kind(c, k, "box") /\ Kind(c, k + 1, "box")
       /\ log[c][k].val < Infinity /\ log[c][k + 1].val < Infinity)
      => LET parent == log[c][k - 1]
             left   == log[c][k]
             right  == log[c][k + 1]
             far    == log[c][k + 2]
             close  == log[c][k + 3]
         IN /\ parent.kind = "pop"
            /\ left.node = parent.node + 1
            /\ right.node = parent.node + flatTree[parent.node].rightOffset
            /\ Kind(c, k + 2, "push") /\ Kind(c, k + 3, "push")
            /\ {far.node, close.node} = {left.node, right.node}
            /\ far.node # close.node
            /\ close.val <= far.val
            /\ close.val = bboxIntersect(close.node, ray[c]).tnear
            /\ far.val = bboxIntersect(far.node, ray[c]).tnear
            /\ close.val = far.val => close.node = left.node
            /\ close.slot = far.slot + 1
            /\ Len(log[c]) >= k + 4 =>
                 /\ log[c][k + 4].kind = "pop"
                 /\ log[c][k + 4].node = close.node
            /\ \A j \in 1..Len(log[c]) :
                 (log[c][j].kind = "pop" /\ log[c][j].node = far.node) => j > k + 4

\* a call has returned after the right child of a node was entered strictly
\* earlier than the left one and both children were popped
FrontToBackWitness ==
  \E c \in Calls :
    /\ Done(c)
    /\ \E k \in 1..Len(log[c]) :
         /\ Kind(c, k, "box") /\ Kind(c, k + 1, "box")
         /\ log[c][k + 1].val < log[c][k].val /\ log[c][k].val < Infinity
         /\ \E j \in 1..Len(log[c]) :
              /\ j > k + 4
              /\ log[c][j].kind = "pop" /\ log[c][j].node = log[c][k].node
              /\ ~Kind(c, j + 1, "prune")

\* C9: occlusion early exit.  In occlusion mode a valid answer of the
\* Intersector is the last event of the call: the call has returned exactly
\* that answer, with its running best never merged into; and the primitives
\* of a leaf are passed to the Intersector in ascending index order from
\* the first.
OcclusionEarlyExit ==
  \A c \in Calls :
    occlusion[c] =>
      \A k \in 1..Len(log[c]) :
        log[c][k].kind = "isect" =>
          /\ log[c][k].val < Infinity =>
               /\ k = Len(log[c])
               /\ Done(c)
               /\ result[c] = [t |-> log[c][k].val, object |-> log[c][k].node]
               /\ intersection[c] = DefaultIntersection
          /\ IF Kind(c, k - 1, "isect")
             THEN /\ log[c][k].slot = log[c][k - 1].slot + 1
                  /\ log[c][k].node = log[c][k - 1].node + 1
             ELSE /\ Kind(c, k - 1, "pop")
                  /\ log[c][k].slot = 0
                  /\ log[c][k].node = build_prims[flatTree[log[c][k - 1].node].start]

\* an occlusion-mode call has returned the second primitive of a leaf with
\* a further primitive in that leaf or an entry on the stack left untested
OcclusionEarlyExitWitness ==
  \E c \in Calls :
    /\ Done(c) /\ occlusion[c] /\ Valid(result[c])
    /\ o[c] = 1
    /\ stackptr[c] >= 0 \/ o[c] + 1 < flatTree[ni[c]].nPrims

\* a step of call c that pops an entry
Pops(c) == pc[c] = "loop" /\ stackptr[c] >= 0 /\ log'[c] # log[c]

\* the prune rule for one step.  A popped entry (i, near) is discarded - nothing
\* tested, nothing pushed, the running best unchanged - exactly if near is
\* strictly greater than the running best's t at the pop; otherwise it is
\* processed: the primitive loop of a leaf is entered, the two child boxes
\* of an internal node are tested.  The root entry is never discarded.
PruneRuleStep ==
  \A c \in Calls :
    Pops(c) =>
      LET e == Top(c)
          n == Len(log[c])
      IN /\ log'[c][n + 1] = Ev("pop", e.i, e.mint, stackptr[c])
         /\ IF e.mint > intersection[c].t
            THEN /\ log'[c] = log[c] \o <<Ev("pop", e.i, e.mint, stackptr[c]),
                                         Ev("prune", e.i, e.mint, 0)>>
                 /\ stackptr'[c] = stackptr[c] - 1
                 /\ intersection'[c] = intersection[c]
                 /\ pc'[c] = "loop"
            ELSE IF flatTree[e.i].rightOffset = 0
            THEN /\ Len(log'[c]) = n + 1
                 /\ pc'[c] = "leaf" /\ ni'[c] = e.i /\ o'[c] = 0
            ELSE /\ Len(log'[c]) >= n + 3
                 /\ log'[c][n + 2].kind = "box" /\ log'[c][n + 2].node = e.i + 1
                 /\ log'[c][n + 3].kind = "box"
                 /\ log'[c][n + 3].node = e.i + flatTree[e.i].rightOffset
         /\ e = RootEntry => e.mint <= intersection[c].t

\* C10: prune rule.  Every step that pops an entry follows the rule of
\* PruneRuleStep, and no call ever discards the entry of the root, node 0.
PruneRule ==
  /\ [][PruneRuleStep]_vars
  /\ [](\A c \in Calls : \A k \in 1..Len(log[c]) :
          log[c][k].kind = "prune" => log[c][k].node # 0)

\* an entry whose entry distance equals the t of the running best has been
\* popped and processed
PruneRuleWitness ==
  \E c \in Calls :
    /\ ~occlusion[c]
    /\ \E k \in 1..Len(log[c]) :
         /\ log[c][k].kind = "pop"
         /\ \E j \in 1..(k - 1) :
              log[c][j].kind = "isect" /\ log[c][j].val = log[c][k].val
         /\ \A j \in 1..(k - 1) :
              log[c][j].kind = "isect" => log[c][j].val >= log[c][k].val
         /\ Kind(c, k + 1, "isect")

====
